---- MODULE Spec2Model ----
(***************************************************************************)
(* Model of guard/src/commands/validate/summary_table.rs: the SummaryTable *)
(* reporter.  One SummaryTable is constructed with a category selector and *)
(* two labels; report (flat mode) and report_eval (trace mode) write a     *)
(* sequence of lines to a sink whose writes may fail.  Every write of the  *)
(* code is one step of the model, so that the order of the writes and the  *)
(* effect of a failed write are visible in the log of write attempts.      *)
(*                                                                         *)
(* Rule names are ASCII, so str::len (bytes) and the formatter's width     *)
(* (characters) agree and both are Len.                                    *)
(***************************************************************************)
EXTENDS Integers, Sequences, FiniteSets, TLC

\* ---------------------------------------------------------------- bounds
\* flat mode: Len(passed_or_skipped) <= MaxPassedOrSkipped
MaxPassedOrSkipped == 2
\* flat mode: Len(failed_rules) <= MaxFailed
MaxFailed == 1
\* flat mode: the caller-supplied longest_rule_name is 0 or MaxLongest
MaxLongest == 1
\* trace mode: the root has at most MaxChildren children
MaxChildren == 3

\* ---------------------------------------------------------- input domains
Names == {"r", "rule5"}
None == "NONE"
Statuses == {"PASS", "FAIL", "SKIP"}
OptStatuses == Statuses \cup {None}

\* StatusContext, reduced to the two fields the reporter reads
StatusContext(c, s) == [context |-> c, status |-> s]

\* the entries a caller may pass in passed_or_skipped: every status, unset
\* included, and in failed_rules: a status that is FAIL and one that is not
PassedOrSkippedEntries ==
    { StatusContext("r", s) : s \in OptStatuses }
    \cup { StatusContext("rule5", s) : s \in {"PASS", "SKIP"} }
FailedEntries ==
    { StatusContext("r", "FAIL"), StatusContext("rule5", "SKIP") }

\* the overall status passed to report (optional) and to report_eval
OverallFlat == {None, "PASS"}
OverallTrace == {"FAIL"}

\* Option<RecordType>: nothing, a RuleCheck(NamedStatus) or a record type
\* other than RuleCheck that also carries a name and a status
NoContainer == [type |-> "None", name |-> "", status |-> None]
RuleCheck(n, s) == [type |-> "RuleCheck", name |-> n, status |-> s]
OtherRecordType(n, s) == [type |-> "Other", name |-> n, status |-> s]

\* EventRecord: a container and an ordered list of children
EventRecord(c, ch) == [container |-> c, children |-> ch]

\* the children a root may have: a rule check of any name and status, a
\* record of another type, and a record without container whose own child
\* is a rule check (name carried only by a deeper descendant)
ChildRecords ==
    { EventRecord(RuleCheck(n, s), <<>>) : n \in Names, s \in Statuses }
    \cup { EventRecord(OtherRecordType("file", "PASS"), <<>>) }
    \cup { EventRecord(NoContainer,
                       << EventRecord(RuleCheck("deep", "FAIL"), <<>>) >>) }

SeqsUpTo(S, n) == UNION { [1..k -> S] : k \in 0..n }

\* ---------------------------------------------------------------- state
VARIABLES
    summary_type,       \* SummaryTable.summary_type: BitFlags<SummaryType>
    rules_file_name,    \* SummaryTable.rules_file_name
    data_file_name,     \* SummaryTable.data_file_name
    mode,               \* which Reporter method is running
    status,             \* argument: overall status
    failed_rules,       \* argument of report
    passed_or_skipped,  \* argument of report
    longest_rule_name,  \* argument of report
    root_record,        \* argument of report_eval
    skipped, passed, failed, longest,   \* locals of the running method
    pc, grp, idx,       \* position in the method: group and entry index
    log,                \* every write attempt on the sink and its outcome
    out,                \* the sink: the lines it accepted, in order
    result              \* what the method returned

vars == << summary_type, rules_file_name, data_file_name, mode, status,
           failed_rules, passed_or_skipped, longest_rule_name, root_record,
           skipped, passed, failed, longest, pc, grp, idx, log, out, result >>

config == << summary_type, rules_file_name, data_file_name >>
args == << status, failed_rules, passed_or_skipped, longest_rule_name,
           root_record >>
locals == << skipped, passed, failed, longest >>

\* ------------------------------------------------------------ formatting
\* "{:<width}": pad on the right up to width, never truncate
PadRight(len, width) == IF len < width THEN width - len ELSE 0

\* "{} Status = {}", data_file_name, colored_string(status)
StatusLine(file, st) ==
    [kind |-> "status", label |-> file, context |-> "", pad |-> 0,
     status |-> st, text |-> " Status = "]

\* "{}", "<X> rules".bold()
HeaderLine(t) ==
    [kind |-> "header", label |-> "", context |-> "", pad |-> 0,
     status |-> "", text |-> t]

\* variant: the field is padded to longest, without the margin of 4
EntryLineNoMargin(file, context, lng, st) ==
    [kind |-> "entry", label |-> file, context |-> context,
     pad |-> PadRight(Len(context), lng), status |-> st, text |-> "/"]

\* "{filename}/{context:<0$}{status}", longest+4
EntryLine(file, context, lng, st) ==
    [kind |-> "entry", label |-> file, context |-> context,
     pad |-> PadRight(Len(context), lng + 4), status |-> st, text |-> "/"]

\* "---"
SeparatorLine ==
    [kind |-> "sep", label |-> "", context |-> "", pad |-> 0,
     status |-> "", text |-> "---"]

\* ------------------------------------------------------------- flat mode
\* variant: everything that is not PASS counts as skipped
IsSkippedNotPass(sc) == sc.status # "PASS"

\* the partition predicate of report: exactly Some(Status::SKIP)
IsSkipped(sc) == sc.status = "SKIP"

\* Iterator::partition: (matching, others), both in input order
RECURSIVE Partition(_, _, _, _)
Partition(v, i, yes, no) ==
    IF i > Len(v) THEN << yes, no >>
    ELSE IF IsSkipped(v[i])
         THEN Partition(v, i + 1, Append(yes, v[i]), no)
         ELSE Partition(v, i + 1, yes, Append(no, v[i]))

\* ------------------------------------------------------------ trace mode
\* IndexMap, as the sequence of its (key, value) pairs in insertion order
ContainsKey(m, k) == \E i \in DOMAIN m : m[i].key = k

\* variant: a present key is removed and inserted again at the end
InsertMoveToEnd(m, k, v) ==
    Append(SelectSeq(m, LAMBDA e : e.key # k), [key |-> k, value |-> v])

\* IndexMap::insert: a present key keeps its place and gets the new value,
\* an absent key is appended
Insert(m, k, v) ==
    IF ContainsKey(m, k)
    THEN [i \in DOMAIN m |-> IF m[i].key = k THEN [key |-> k, value |-> v]
                                             ELSE m[i]]
    ELSE Append(m, [key |-> k, value |-> v])

\* variant: any record type that carries a named status matches
IsRuleCheckAnyNamed(rec) == rec.container.type # "None"

\* the pattern of the if-let: only Some(RecordType::RuleCheck(..)) matches
IsRuleCheck(rec) == rec.container.type = "RuleCheck"

\* variant: the last PASS or FAIL seen for a name replaces the other one
ClassifyOneLastWins(acc, rec) ==
    IF IsRuleCheck(rec)
    THEN LET n == rec.container.name
             s == rec.container.status
             drop(m) == SelectSeq(m, LAMBDA e : e.key # n)
         IN [passed  |-> IF s = "PASS" THEN Insert(acc.passed, n, s)
                         ELSE IF s = "FAIL" THEN drop(acc.passed)
                         ELSE acc.passed,
             failed  |-> IF s = "FAIL" THEN Insert(acc.failed, n, s)
                         ELSE IF s = "PASS" THEN drop(acc.failed)
                         ELSE acc.failed,
             skipped |-> IF s = "SKIP" THEN Insert(acc.skipped, n, s)
                         ELSE acc.skipped,
             longest |-> IF acc.longest < Len(n) THEN Len(n)
                         ELSE acc.longest]
    ELSE acc

\* one iteration of the loop over root_record.children
ClassifyOne(acc, rec) ==
    IF IsRuleCheck(rec)
    THEN LET n == rec.container.name
             s == rec.container.status
         IN [passed  |-> IF s = "PASS" THEN Insert(acc.passed, n, s)
                         ELSE acc.passed,
             failed  |-> IF s = "FAIL" THEN Insert(acc.failed, n, s)
                         ELSE acc.failed,
             skipped |-> IF s = "SKIP" THEN Insert(acc.skipped, n, s)
                         ELSE acc.skipped,
             longest |-> IF acc.longest < Len(n) THEN Len(n)
                         ELSE acc.longest]
    ELSE acc

RECURSIVE Classify(_, _, _)
Classify(children, i, acc) ==
    IF i > Len(children) THEN acc
    ELSE Classify(children, i + 1, ClassifyOne(acc, children[i]))

\* variant: only a PASS supersedes a SKIP
SupersededByPassOnly(k, p, f) == ContainsKey(p, k)

\* the predicate of skipped.retain, negated: the key is dropped
Superseded(k, p, f) == ContainsKey(p, k) \/ ContainsKey(f, k)

\* IndexMap::retain: keeps the order of the entries that stay
Retain(m, p, f) == SelectSeq(m, LAMBDA e : ~Superseded(e.key, p, f))

\* ------------------------------------------------------- the group blocks
\* variant: the PASS block comes first
GroupOrderPassFirst == << "PASS", "SKIP", "FAIL" >>

\* the three if-blocks, in the order of the code
GroupOrder == << "SKIP", "PASS", "FAIL" >>

GroupHeader(c) ==
    CASE c = "SKIP" -> "SKIP rules"
      [] c = "PASS" -> "PASS rules"
      [] c = "FAIL" -> "FAILED rules"

\* the list each block prints
GroupPart(c) ==
    CASE c = "SKIP" -> skipped
      [] c = "PASS" -> passed
      [] c = "FAIL" -> IF mode = "report" THEN failed_rules ELSE failed

\* variant: the selector is not consulted
ShouldPrintAnySelector(c, part) == part # << >>

\* the condition of each if-block
ShouldPrint(c, part) == c \in summary_type /\ part # << >>

\* whether the writeln! of the group header is followed by `?`
HeaderPropagates(m) == m = "report_eval"

\* the width argument of the block's print call
GroupLongest == IF mode = "report" THEN longest_rule_name ELSE longest

\* the line print_partition / print_summary writes for element e
PartLine(e) ==
    IF mode = "report"
    THEN EntryLine(rules_file_name, e.context, GroupLongest, e.status)
    ELSE EntryLine(rules_file_name, e.key, GroupLongest, e.value)

\* variant: the method returns after the last block
AfterGroupNoSeparator(g) == IF g < Len(GroupOrder) THEN "group" ELSE "done"

\* where control goes after block g
AfterGroup(g) == IF g < Len(GroupOrder) THEN "group" ELSE "sep"

\* one write on the sink: the attempt is logged, an accepted line is kept
Write(line, ok) ==
    /\ log' = Append(log, [line |-> line, ok |-> ok])
    /\ out' = IF ok THEN Append(out, line) ELSE out

\* ------------------------------------------------------------------ Init
Init ==
    /\ summary_type \in SUBSET Statuses
    /\ rules_file_name = "rules.guard"
    /\ data_file_name = "data.json"
    /\ mode = "none"
    /\ status = None
    /\ failed_rules = << >>
    /\ passed_or_skipped = << >>
    /\ longest_rule_name = 0
    /\ root_record = EventRecord(NoContainer, << >>)
    /\ skipped = << >> /\ passed = << >> /\ failed = << >>
    /\ longest = 0
    /\ pc = "idle" /\ grp = 1 /\ idx = 1
    /\ log = << >> /\ out = << >>
    /\ result = "none"

\* --------------------------------------------------------------- actions
\* report is called; the partition precedes the first write
Report(st, fr, pos, lrn) ==
    /\ pc = "idle"
    /\ mode' = "report"
    /\ status' = st
    /\ failed_rules' = fr
    /\ passed_or_skipped' = pos
    /\ longest_rule_name' = lrn
    /\ LET p == Partition(pos, 1, << >>, << >>)
       IN /\ skipped' = p[1]
          /\ passed' = p[2]
    /\ pc' = "status"
    /\ UNCHANGED << config, root_record, failed, longest, grp, idx, log,
                    out, result >>

\* report_eval is called
ReportEval(st, root) ==
    /\ pc = "idle"
    /\ mode' = "report_eval"
    /\ status' = st
    /\ root_record' = root
    /\ pc' = "status"
    /\ UNCHANGED << config, failed_rules, passed_or_skipped,
                    longest_rule_name, locals, grp, idx, log, out, result >>

\* writeln!(writer, "{} Status = {}", ..)?
WriteStatusLine(ok) ==
    /\ pc = "status"
    /\ Write(StatusLine(data_file_name, status), ok)
    /\ IF ok
       THEN /\ pc' = IF mode = "report" THEN "group" ELSE "build"
            /\ result' = result
       ELSE /\ pc' = "done"
            /\ result' = "Err"
    /\ UNCHANGED << config, mode, args, locals, grp, idx >>

\* report_eval: the three maps, the loop over the children and the retain
BuildGroups ==
    /\ pc = "build"
    /\ LET acc == Classify(root_record.children, 1,
                           [passed |-> << >>, failed |-> << >>,
                            skipped |-> << >>, longest |-> 0])
       IN /\ passed' = acc.passed
          /\ failed' = acc.failed
          /\ skipped' = Retain(acc.skipped, acc.passed, acc.failed)
          /\ longest' = acc.longest
    /\ pc' = "group"
    /\ UNCHANGED << config, mode, args, grp, idx, log, out, result >>

\* one if-block whose condition is false
SkipGroup ==
    /\ pc = "group"
    /\ ~ShouldPrint(GroupOrder[grp], GroupPart(GroupOrder[grp]))
    /\ pc' = AfterGroup(grp)
    /\ grp' = IF grp < Len(GroupOrder) THEN grp + 1 ELSE grp
    /\ UNCHANGED << config, mode, args, locals, idx, log, out, result >>

\* one if-block whose condition is true: the header write
WriteHeader(ok) ==
    /\ pc = "group"
    /\ ShouldPrint(GroupOrder[grp], GroupPart(GroupOrder[grp]))
    /\ Write(HeaderLine(GroupHeader(GroupOrder[grp])), ok)
    /\ IF ok \/ ~HeaderPropagates(mode)
       THEN /\ pc' = "entries"
            /\ idx' = 1
            /\ result' = result
       ELSE /\ pc' = "done"
            /\ idx' = idx
            /\ result' = "Err"
    /\ UNCHANGED << config, mode, args, locals, grp >>

\* one iteration of the loop of print_partition / print_summary
WriteEntry(ok) ==
    /\ pc = "entries"
    /\ LET part == GroupPart(GroupOrder[grp])
       IN /\ Write(PartLine(part[idx]), ok)
          /\ IF ~ok
             THEN /\ pc' = "done"
                  /\ result' = "Err"
                  /\ UNCHANGED << grp, idx >>
             ELSE /\ result' = result
                  /\ IF idx < Len(part)
                     THEN /\ idx' = idx + 1
                          /\ UNCHANGED << pc, grp >>
                     ELSE /\ pc' = AfterGroup(grp)
                          /\ grp' = IF grp < Len(GroupOrder) THEN grp + 1
                                    ELSE grp
                          /\ idx' = 1
    /\ UNCHANGED << config, mode, args, locals >>

\* writeln!(writer, "---")?; Ok(())
WriteSeparator(ok) ==
    /\ pc = "sep"
    /\ Write(SeparatorLine, ok)
    /\ result' = IF ok THEN "Ok" ELSE "Err"
    /\ pc' = "done"
    /\ UNCHANGED << config, mode, args, locals, grp, idx >>

\* the method has returned; its arguments and locals are dropped
Return ==
    /\ pc = "done"
    /\ mode' = "none"
    /\ status' = None
    /\ failed_rules' = << >>
    /\ passed_or_skipped' = << >>
    /\ longest_rule_name' = 0
    /\ root_record' = EventRecord(NoContainer, << >>)
    /\ skipped' = << >> /\ passed' = << >> /\ failed' = << >>
    /\ longest' = 0
    /\ pc' = "idle" /\ grp' = 1 /\ idx' = 1
    /\ log' = << >> /\ out' = << >>
    /\ result' = "none"
    /\ UNCHANGED config

\* the caller's choice of arguments for report
CallReport ==
    /\ pc = "idle"
    /\ \E st \in OverallFlat,
          fr \in SeqsUpTo(FailedEntries, MaxFailed),
          pos \in SeqsUpTo(PassedOrSkippedEntries, MaxPassedOrSkipped),
          lrn \in {0, MaxLongest} :
          Report(st, fr, pos, lrn)

\* the caller's choice of arguments for report_eval
CallReportEval ==
    /\ pc = "idle"
    /\ \E st \in OverallTrace, ch \in SeqsUpTo(ChildRecords, MaxChildren) :
          ReportEval(st, EventRecord(NoContainer, ch))

Next ==
    \/ CallReport
    \/ CallReportEval
    \/ \E ok \in BOOLEAN : WriteStatusLine(ok)
    \/ BuildGroups
    \/ SkipGroup
    \/ \E ok \in BOOLEAN : WriteHeader(ok)
    \/ \E ok \in BOOLEAN : WriteEntry(ok)
    \/ \E ok \in BOOLEAN : WriteSeparator(ok)
    \/ Return

Spec == Init /\ [][Next]_vars

\* ----------------------------------------------------- reading the sink
\* the lines the sink accepted, in order, and whether it accepted every write
Lines == out
AllAccepted == \A i \in DOMAIN log : log[i].ok
\* the method has returned and the sink accepted every write
Completed == pc = "done" /\ AllAccepted

HeaderText(c) ==
    CASE c = "SKIP" -> "SKIP rules"
      [] c = "PASS" -> "PASS rules"
      [] c = "FAIL" -> "FAILED rules"

MaxOf(S) == CHOOSE x \in S : \A y \in S : y <= x
MinOf(S) == CHOOSE x \in S : \A y \in S : x <= y

HeaderIdx(c) ==
    { i \in DOMAIN Lines :
        Lines[i].kind = "header" /\ Lines[i].text = HeaderText(c) }
EntryIdx == { i \in DOMAIN Lines : Lines[i].kind = "entry" }

\* the text of the nearest header line above line i ("" when there is none)
LastHeader(i) ==
    LET H == { j \in 1..(i - 1) : Lines[j].kind = "header" }
    IN IF H = {} THEN "" ELSE Lines[MaxOf(H)].text

\* the entry lines written under the header of category c, as indices and as
\* the sequence of their (identifier, status) pairs
SectionIdx(c) == { i \in EntryIdx : LastHeader(i) = HeaderText(c) }
SectionSeq(c) ==
    LET ix == SelectSeq([i \in DOMAIN Lines |-> i],
                        LAMBDA i : i \in SectionIdx(c))
    IN [k \in DOMAIN ix |-> << Lines[ix[k]].context, Lines[ix[k]].status >>]
SectionNames(c) == { Lines[i].context : i \in SectionIdx(c) }

\* the column at which the status text of an entry line starts
Column(l) == Len(l.label) + Len(l.text) + Len(l.context) + l.pad

\* ---------------------------------------- the groups, read off the inputs
\* flat mode: the entries of each category, in input order
FlatGroup(c) ==
    CASE c = "SKIP" -> SelectSeq(passed_or_skipped,
                                 LAMBDA e : e.status = "SKIP")
      [] c = "PASS" -> SelectSeq(passed_or_skipped,
                                 LAMBDA e : e.status # "SKIP")
      [] c = "FAIL" -> failed_rules
FlatPairs(c) ==
    [k \in DOMAIN FlatGroup(c) |->
        << FlatGroup(c)[k].context, FlatGroup(c)[k].status >>]

\* trace mode: the direct children of the root that carry a rule check, and
\* the names they carry with a status in S
RuleChildren ==
    { i \in DOMAIN root_record.children :
        root_record.children[i].container.type = "RuleCheck" }
ChildName(i) == root_record.children[i].container.name
ChildStatus(i) == root_record.children[i].container.status
NamesWith(S) == { ChildName(i) : i \in { j \in RuleChildren :
                                          ChildStatus(j) \in S } }
\* trace mode: the names of each category, SKIP after supersession
TraceGroupNames(c) ==
    IF c = "SKIP"
    THEN NamesWith({"SKIP"}) \ NamesWith({"PASS", "FAIL"})
    ELSE NamesWith({c})
\* the first child that carries name n with status c
FirstOcc(c, n) ==
    MinOf({ i \in RuleChildren : ChildName(i) = n /\ ChildStatus(i) = c })

GroupSize(c) ==
    IF mode = "report" THEN Len(FlatGroup(c))
    ELSE Cardinality(TraceGroupNames(c))
GroupNames(c) ==
    IF mode = "report"
    THEN { FlatGroup(c)[k].context : k \in DOMAIN FlatGroup(c) }
    ELSE TraceGroupNames(c)

\* the longest name the alignment is computed from
MaxNameLength ==
    IF mode = "report" THEN longest_rule_name
    ELSE IF NamesWith(Statuses) = {} THEN 0
         ELSE MaxOf({ Len(n) : n \in NamesWith(Statuses) })

\* ------------------------------------------------------------------- C1
\* C1: when the sink accepts every write, in both modes and for every
\* selector, the header of category c and entry lines under it are written
\* if and only if c is selected and the group of c (in trace mode: SKIP
\* after the superseded names were removed) is not empty.
C1_GroupIffSelectedAndNonEmpty ==
    Completed =>
        \A c \in Statuses :
            LET emit == c \in summary_type /\ GroupSize(c) > 0
            IN /\ (HeaderIdx(c) # {}) <=> emit
               /\ (SectionIdx(c) # {}) <=> emit

\* trace mode: SKIP is selected and tagged in the input but emptied by
\* supersession, FAIL is non-empty but deselected, PASS is written
C1_Witness ==
    /\ Completed /\ mode = "report_eval"
    /\ "SKIP" \in summary_type /\ NamesWith({"SKIP"}) # {}
    /\ TraceGroupNames("SKIP") = {}
    /\ "FAIL" \notin summary_type /\ NamesWith({"FAIL"}) # {}
    /\ HeaderIdx("PASS") # {} /\ HeaderIdx("SKIP") = {}

\* ------------------------------------------------------------------- C2
\* C2: a failed write is the last write attempted on the sink, and a method
\* that saw a write fail returns an error.
C2_FirstWriteFailureAborts ==
    /\ \A i \in DOMAIN log : ~log[i].ok => i = Len(log)
    /\ (pc = "done" /\ ~AllAccepted) => result = "Err"

\* ------------------------------------------------------------------- C3
\* C3: in trace mode, a name carried by a direct child of the root with
\* status PASS or FAIL is never on an entry line under the SKIP header,
\* whatever the order and number of its SKIP children.
C3_SupersededNeverUnderSkip ==
    mode = "report_eval" =>
        \A n \in NamesWith({"PASS", "FAIL"}) : n \notin SectionNames("SKIP")

\* the SKIP group is written, and a name is tagged SKIP after it was tagged
\* PASS or FAIL
C3_Witness ==
    /\ Completed /\ mode = "report_eval"
    /\ SectionIdx("SKIP") # {}
    /\ \E i, j \in RuleChildren :
          /\ i < j /\ ChildName(i) = ChildName(j)
          /\ ChildStatus(i) \in {"PASS", "FAIL"} /\ ChildStatus(j) = "SKIP"

\* ------------------------------------------------------------------- C4
HeaderRank(t) ==
    CASE t = "SKIP rules" -> 1 [] t = "PASS rules" -> 2
      [] t = "FAILED rules" -> 3

\* C4: when the sink accepts every write, the overall-status line is the
\* first line and the only one of its kind, the headers written are in the
\* order SKIP, PASS, FAIL, every entry line directly follows a header or
\* another entry line, and at the end each header written is followed by all
\* the entry lines of its group.
C4_FixedGroupOrder ==
    AllAccepted =>
        /\ \A i \in DOMAIN Lines : (Lines[i].kind = "status") <=> (i = 1)
        /\ \A i, j \in DOMAIN Lines :
              (i < j /\ Lines[i].kind = "header" /\ Lines[j].kind = "header")
                  => HeaderRank(Lines[i].text) < HeaderRank(Lines[j].text)
        /\ \A i \in EntryIdx :
              i > 1 /\ Lines[i - 1].kind \in {"header", "entry"}
        /\ pc = "done" =>
              \A c \in Statuses : \A h \in HeaderIdx(c) :
                  /\ SectionIdx(c) = (h + 1)..(h + GroupSize(c))
                  /\ SectionNames(c) = GroupNames(c)

\* flat mode, three groups written, the input lists the SKIP entry last
C4_Witness ==
    /\ Completed /\ mode = "report"
    /\ \A c \in Statuses : SectionIdx(c) # {}
    /\ Len(passed_or_skipped) = 2
    /\ passed_or_skipped[2].status = "SKIP"

\* ------------------------------------------------------------------- C5
\* C5 as claimed: the status text of every entry line starts at column
\* len(label) + 1 + (max_name_length + 4), for every caller-supplied width.
C5_ColumnAsClaimed ==
    \A i \in EntryIdx :
        Column(Lines[i]) = Len(rules_file_name) + 1 + (MaxNameLength + 4)

\* C5 amended: the status text of an entry line starts at column
\* len(label) + 1 + max(len(identifier), max_name_length + 4); in trace mode
\* that is the claimed column for every entry line.
C5_ColumnNeverTruncates ==
    \A i \in EntryIdx :
        LET l == Lines[i]
            w == MaxNameLength + 4
        IN /\ Column(l) = Len(rules_file_name) + 1
                          + (IF Len(l.context) > w THEN Len(l.context) ELSE w)
           /\ mode = "report_eval"
                 => Column(l) = Len(rules_file_name) + 1 + w

\* flat mode: the supplied width is smaller than an identifier that still
\* fits the padded field, next to a shorter identifier
C5_Witness ==
    /\ pc = "done" /\ mode = "report"
    /\ \E i, j \in EntryIdx :
          /\ Len(Lines[i].context) > longest_rule_name
          /\ Len(Lines[i].context) <= longest_rule_name + 4
          /\ Len(Lines[j].context) < Len(Lines[i].context)
          /\ Lines[j].pad > 0
          /\ Column(Lines[i]) = Column(Lines[j])

\* ------------------------------------------------------------------- C6
\* C6: when the sink accepts every write, the returned method has written
\* the line "---" exactly once, as the last line, whatever the input.
C6_SeparatorLastAndOnce ==
    Completed =>
        /\ Lines # << >>
        /\ Lines[Len(Lines)].kind = "sep"
        /\ { i \in DOMAIN Lines : Lines[i].text = "---" } = { Len(Lines) }
        /\ result = "Ok"

\* flat mode with empty lists and an unset overall status
C6_Witness ==
    /\ Completed /\ mode = "report"
    /\ status = None
    /\ failed_rules = << >> /\ passed_or_skipped = << >>
    /\ summary_type = Statuses
    /\ Len(Lines) = 2

C9_PassAndFailBothKept ==
    (Completed /\ mode = "report_eval"
        /\ {"PASS", "FAIL"} \subseteq summary_type) =>
        \A n \in NamesWith({"PASS"}) \cap NamesWith({"FAIL"}) :
            \A c \in {"PASS", "FAIL"} :
                Cardinality({ i \in SectionIdx(c) : Lines[i].context = n })
                    = 1

\* the FAIL child comes before the PASS child of the same name
C9_Witness ==
    /\ Completed /\ mode = "report_eval"
    /\ {"PASS", "FAIL"} \subseteq summary_type
    /\ \E i, j \in RuleChildren :
          /\ i < j /\ ChildName(i) = ChildName(j)
          /\ ChildStatus(i) = "FAIL" /\ ChildStatus(j) = "PASS"

\* ------------------------------------------------------------------ C10
\* C10: in trace mode with all three categories selected, when the sink
\* accepts every write, the names on the entry lines are exactly the names
\* of the rule checks carried by direct children of the root, and a root
\* without such a child yields the status line and "---" only.
C10_ExactlyTopLevelRuleNames ==
    (Completed /\ mode = "report_eval" /\ summary_type = Statuses) =>
        /\ { Lines[i].context : i \in EntryIdx } = NamesWith(Statuses)
        /\ RuleChildren = {} =>
              /\ Len(Lines) = 2
              /\ Lines[1].kind = "status" /\ Lines[2].kind = "sep"

\* a child of another record type, a child whose rule check is one level
\* down, and a name tagged SKIP that is superseded
C10_Witness ==
    /\ Completed /\ mode = "report_eval" /\ summary_type = Statuses
    /\ \E i \in DOMAIN root_record.children :
          /\ i \notin RuleChildren
          /\ \/ root_record.children[i].container.type = "Other"
             \/ root_record.children[i].children # << >>
    /\ NamesWith({"SKIP"}) \cap NamesWith({"PASS", "FAIL"}) # {}

====
